---- MODULE Spec2Model ----
(***************************************************************************)
(* aggregate_md.py: walk a directory tree, collect the Markdown files,     *)
(* group them by directory and write one aggregated document.              *)
(*                                                                         *)
(* Strings are sequences of one-character strings, so that path algebra,   *)
(* sorting and the heading regex are computed character by character.      *)
(* The written document is the sequence of outfile.write calls, each a     *)
(* record [kind, text] holding the interpolated value of the call.         *)
(***************************************************************************)
EXTENDS Integers, Sequences, FiniteSets, TLC

\* ------------------------------------------------------------------ bounds
MaxFiles == 3      \* files present in the tree
MaxExclude == 1    \* entries of the exclusion list
MaxFaults == 1     \* unreadable files plus unlistable directories
MaxLen == 5        \* length of a content handed to adjust_headings alone

\* ------------------------------------------------------------- characters
\* Code points of the characters in use: Python compares str by code point.
Ord(c) ==
  CASE c = "\n" -> 10 [] c = " " -> 32 [] c = "#" -> 35 [] c = "." -> 46
    [] c = "/" -> 47 [] c = ">" -> 62 [] c = "D" -> 68 [] c = "M" -> 77
    [] c = "T" -> 84 [] c = "Y" -> 89 [] c = "a" -> 97 [] c = "b" -> 98
    [] c = "d" -> 100 [] c = "m" -> 109 [] c = "o" -> 111 [] c = "r" -> 114
    [] c = "t" -> 116 [] c = "x" -> 120 [] c = "y" -> 121

\* str.lower() on one character.
Lower(c) ==
  CASE c = "D" -> "d" [] c = "M" -> "m" [] c = "T" -> "t" [] c = "Y" -> "y"
    [] OTHER -> c

\* a < b for two str values (list.sort and sorted compare this way).
RECURSIVE StrLess(_, _)
StrLess(a, b) ==
  IF b = <<>> THEN FALSE
  ELSE IF a = <<>> THEN TRUE
  ELSE IF Head(a) = Head(b) THEN StrLess(Tail(a), Tail(b))
  ELSE Ord(Head(a)) < Ord(Head(b))

\* str.endswith
EndsWith(s, suffix) ==
  /\ Len(s) >= Len(suffix)
  /\ SubSeq(s, Len(s) - Len(suffix) + 1, Len(s)) = suffix

\* file.lower().endswith('.md')
EndsWithMd(name) ==
  EndsWith([i \in 1..Len(name) |-> Lower(name[i])], <<".", "m", "d">>)

\* ------------------------------------------------------------------ paths
\* Index of the last "/" of p, 0 when there is none (str.rfind + 1).
LastSlash(p) ==
  LET S == {i \in 1..Len(p) : p[i] = "/"}
  IN IF S = {} THEN 0 ELSE CHOOSE i \in S : \A j \in S : j <= i

\* os.path.join(a, b): an absolute b replaces a.
Join(a, b) ==
  IF b # <<>> /\ b[1] = "/" THEN b
  ELSE IF a = <<>> \/ a[Len(a)] = "/" THEN a \o b
  ELSE a \o <<"/">> \o b

\* os.path.basename
BaseName(p) == SubSeq(p, LastSlash(p) + 1, Len(p))

\* os.path.dirname: the head up to the last "/", trailing slashes stripped
\* unless the head is all slashes.
RECURSIVE RStripSlash(_)
RStripSlash(s) ==
  IF s # <<>> /\ s[Len(s)] = "/" THEN RStripSlash(SubSeq(s, 1, Len(s) - 1))
  ELSE s

DirName(p) ==
  LET head == SubSeq(p, 1, LastSlash(p))
  IN IF head # <<>> /\ \E i \in 1..Len(head) : head[i] # "/"
     THEN RStripSlash(head) ELSE head

\* p.split('/'): the components of p, empty ones included.
RECURSIVE SplitFrom(_, _)
SplitFrom(p, cur) ==
  IF p = <<>> THEN <<cur>>
  ELSE IF Head(p) = "/" THEN <<cur>> \o SplitFrom(Tail(p), <<>>)
  ELSE SplitFrom(Tail(p), Append(cur, Head(p)))

Split(p) == SplitFrom(p, <<>>)

\* '/'.join(comps)
RECURSIVE JoinComps(_)
JoinComps(comps) ==
  IF comps = <<>> THEN <<>>
  ELSE IF Len(comps) = 1 THEN comps[1]
  ELSE comps[1] \o <<"/">> \o JoinComps(Tail(comps))

\* posixpath.normpath on an absolute path: empty and "." components dropped,
\* ".." pops the component before it (and is dropped at the top).
RECURSIVE NormComps(_, _)
NormComps(comps, acc) ==
  IF comps = <<>> THEN acc
  ELSE LET c == Head(comps)
       IN IF c = <<>> \/ c = <<".">> THEN NormComps(Tail(comps), acc)
          ELSE IF c = <<".", ".">>
            THEN NormComps(Tail(comps),
                           IF acc = <<>> THEN acc
                           ELSE SubSeq(acc, 1, Len(acc) - 1))
          ELSE NormComps(Tail(comps), Append(acc, c))

NormPath(p) == <<"/">> \o JoinComps(NormComps(Split(p), <<>>))

\* The process's working directory, against which abspath resolves.
Cwd == <<"/", "r">>

\* os.path.abspath
AbsPath(p) == NormPath(Join(Cwd, p))

\* os.path.relpath(path, start): ".." for every component of start past the
\* common prefix, then the rest of path; "." when nothing is left.
RECURSIVE CommonLen(_, _)
CommonLen(a, b) ==
  IF a = <<>> \/ b = <<>> \/ Head(a) # Head(b) THEN 0
  ELSE 1 + CommonLen(Tail(a), Tail(b))

RelPath(path, start) ==
  LET sl == NormComps(Split(AbsPath(start)), <<>>)
      pl == NormComps(Split(AbsPath(path)), <<>>)
      i == CommonLen(sl, pl)
      rel == [k \in 1..(Len(sl) - i) |-> <<".", ".">>]
               \o SubSeq(pl, i + 1, Len(pl))
  IN IF rel = <<>> THEN <<".">> ELSE JoinComps(rel)

\* section_path.replace('/', ' > ')
RECURSIVE ReplaceSlash(_)
ReplaceSlash(s) ==
  IF s = <<>> THEN <<>>
  ELSE (IF Head(s) = "/" THEN <<" ", ">", " ">> ELSE <<Head(s)>>)
         \o ReplaceSlash(Tail(s))

\* -------------------------------------------------------- adjust_headings
\* \s of the regex, on the characters in use: it matches the newline too.
IsSpace(c) == c \in {" ", "\n"}

\* The length of the run of "#" that starts at position i.
RECURSIVE HashRun(_, _)
HashRun(s, i) ==
  IF i <= Len(s) /\ s[i] = "#" THEN 1 + HashRun(s, i + 1) ELSE 0

\* The last position of the line that holds position j: where a greedy .+
\* started at j stops, and where $ matches.
RECURSIVE LineEnd(_, _)
LineEnd(s, j) ==
  IF j < Len(s) /\ s[j + 1] # "\n" THEN LineEnd(s, j + 1) ELSE j

\* r'^(#+)(\s+.+)$' with re.MULTILINE, tried at position i: the last position
\* of the match, 0 when there is none. ^ holds at the start and after a
\* newline; #+ takes the whole run; greedy \s+ takes the longest run of
\* whitespace (newlines included) that still leaves .+ a character other than
\* the newline to start on.
MatchEnd(s, i) ==
  LET k == HashRun(s, i)
      J == {j \in (i + k + 1)..Len(s) :
              /\ \A m \in (i + k)..(j - 1) : IsSpace(s[m])
              /\ s[j] # "\n"}
  IN IF (i = 1 \/ s[i - 1] = "\n") /\ k > 0 /\ J # {}
     THEN LineEnd(s, CHOOSE j \in J : \A x \in J : x <= j)
     ELSE 0

\* '#' * n
Hashes(n) == [i \in 1..n |-> "#"]

\* increase_heading on the match that starts at i and ends at e.
increase_heading(s, i, e, level_increase) ==
  Hashes(HashRun(s, i) + level_increase) \o SubSeq(s, i + HashRun(s, i), e)

\* re.sub: the non-overlapping matches from left to right, each replaced, the
\* text between them copied.
RECURSIVE SubFrom(_, _, _)
SubFrom(s, i, level_increase) ==
  IF i > Len(s) THEN <<>>
  ELSE LET e == MatchEnd(s, i)
       IN IF e = 0 THEN <<s[i]>> \o SubFrom(s, i + 1, level_increase)
          ELSE increase_heading(s, i, e, level_increase)
                 \o SubFrom(s, e + 1, level_increase)

adjust_headings(content, level_increase) ==
  IF level_increase <= 0 THEN content
  ELSE SubFrom(content, 1, level_increase)

\* The shift the writer passes to adjust_headings.
Shift == 3

\* ----------------------------------------------------- the file system
\* The directory argument (the command line's default) and its absolute path.
DirectoryArg == <<".">>

directory == AbsPath(DirectoryArg)

\* The directories of the tree: the root, a, a/b and a.d.
DirUniverse ==
  { <<"/", "r">>,
    <<"/", "r", "/", "a">>,
    <<"/", "r", "/", "a", "/", "b">>,
    <<"/", "r", "/", "a", ".", "d">> }

\* The files the tree may hold.
FileUniverse ==
  { <<"/", "r", "/", "x", ".", "m", "d">>,
    <<"/", "r", "/", "Y", ".", "M", "D">>,
    <<"/", "r", "/", "t", ".", "t", "x", "t">>,
    <<"/", "r", "/", "a", "/", "x", ".", "m", "d">>,
    <<"/", "r", "/", "a", "/", "b", "/", "x", ".", "m", "d">>,
    <<"/", "r", "/", "a", ".", "d", "/", "x", ".", "m", "d">> }

\* The directories whose scan may fail: the root and a.
UnlistableUniverse ==
  { <<"/", "r">>, <<"/", "r", "/", "a">> }

\* The exclusion entries a caller may pass: ".", "a/", "a/b", "Y.MD".
ExclUniverse ==
  { <<".">>, <<"a", "/">>, <<"a", "/", "b">>, <<"Y", ".", "M", "D">> }

\* The output paths a caller may pass: "x.md", "a/b/../x.md", "/o.md".
OutputUniverse ==
  { <<"x", ".", "m", "d">>,
    <<"a", "/", "b", "/", ".", ".", "/", "x", ".", "m", "d">>,
    <<"/", "o", ".", "m", "d">> }

\* What infile.read() returns for a readable file.
Content(file_path) ==
  IF BaseName(file_path) = <<"Y", ".", "M", "D">>
    THEN <<"#", " ", "T", "\n", "x", " ", "#">>
  ELSE IF DirName(file_path) = directory
    THEN <<"#", "#", " ", "T">>
  ELSE <<"x", "\n", "#", " ", "T">>

\* The characters of a content, and the shifts, tried on adjust_headings alone.
ContentAlphabet == {"#", " ", "\n", "x"}

ShiftUniverse == {0, 1, Shift}

Contents(n) == UNION {[1..k -> ContentAlphabet] : k \in 0..n}

\* Every order in which a directory scan may return the names of S.
Orderings(S) ==
  {s \in [1..Cardinality(S) -> S] :
     \A i, j \in 1..Cardinality(S) : i # j => s[i] # s[j]}

\* ------------------------------------------------------------------ state
VARIABLES
  files,        \* the files of the tree, by absolute path
  unreadable,   \* the files whose read raises
  unlistable,   \* the directories whose scan raises
  excludeArg,   \* the exclude argument as passed
  output_file,  \* the output argument as passed
  outState,     \* the output file: "absent", "old" (left by someone else), "new"
  pc,           \* the position of aggregate_markdown_files
  run,          \* 1 in the first invocation, 2 in the repeated one
  exclude,      \* the exclusion list once resolved to absolute paths
  stack,        \* os.walk: the directories still to scan, next first
  scanned,      \* os.walk: the directories whose scan was attempted
  md_files,     \* the files found
  sections,     \* directory key -> files
  keysLeft,     \* the section loop: keys still to write
  filesLeft,    \* the file loop of the current section: files still to write
  doc,          \* what has been written to the output file
  reported,     \* the two printed counts
  prevDoc,      \* the document of the first invocation
  inOrder,      \* per invocation: did os.walk yield the files already sorted
  rcontent,     \* adjust_headings alone: its content argument
  rshift,       \* adjust_headings alone: its level_increase argument
  rresult,      \* adjust_headings alone: what it returned
  rpc           \* adjust_headings alone: "call" or "returned"

envVars == <<files, unreadable, unlistable, excludeArg, output_file, outState>>
runVars == <<pc, run, exclude, stack, scanned, md_files, sections, keysLeft,
             filesLeft, doc, reported, prevDoc, inOrder>>
rewriterVars == <<rcontent, rshift, rresult, rpc>>
vars == <<envVars, runVars, rewriterVars>>

\* One outfile.write call.
Rec(kind, text) == [kind |-> kind, text |-> text]

\* ---------------------------------------------------------------- scanner
\* The names os.walk yields for a directory: its subdirectories, its files.
DirNames(root) ==
  {BaseName(d) : d \in {x \in DirUniverse : x # root /\ DirName(x) = root}}

FileNames(root) == {BaseName(f) : f \in {x \in files : DirName(x) = root}}

\* The resolved exclusion list.
ResolveExclude(paths) == {AbsPath(Join(directory, path)) : path \in paths}

\* Mutant of KeepDir: no subdirectory is pruned.
KeepDirNoPruning(root, d) == TRUE

\* dirs[:] = [d for d in dirs if abspath(join(root, d)) not in exclude]
KeepDir(root, d) == AbsPath(Join(root, d)) \notin exclude

\* Mutant of IsCandidate: the output file is not told apart.
IsCandidateOutputToo(root, file) ==
  /\ EndsWithMd(file)
  /\ Join(root, file) \notin exclude

\* The test a file name passes to be appended to md_files.
IsCandidate(root, file) ==
  /\ EndsWithMd(file)
  /\ Join(root, file) \notin exclude
  /\ AbsPath(Join(root, file)) # AbsPath(output_file)

\* The subdirectory names left in dirs once the excluded ones are pruned.
KeptDirs(root, dirs) == SelectSeq(dirs, LAMBDA d : KeepDir(root, d))

\* The file names of one directory that are appended to md_files.
Candidates(root, names) == SelectSeq(names, LAMBDA f : IsCandidate(root, f))

JoinAll(root, names) == [i \in 1..Len(names) |-> Join(root, names[i])]

\* list.sort() and sorted(): insertion into an ascending list.
RECURSIVE Insert(_, _)
Insert(x, s) ==
  IF s = <<>> THEN <<x>>
  ELSE IF StrLess(x, Head(s)) THEN <<x>> \o s
  ELSE <<Head(s)>> \o Insert(x, Tail(s))

RECURSIVE SortList(_)
SortList(s) == IF s = <<>> THEN <<>> ELSE Insert(Head(s), SortList(Tail(s)))

\* Mutant of SortFiles: the list is left in the order of the walk.
SortFilesSkipped(md) == md

\* md_files.sort()
SortFiles(md) == SortList(md)

\* ---------------------------------------------------------------- grouper
\* Mutant of SectionKey: the first directory below the root, not the last.
SectionKeyTopLevel(file_path) ==
  LET comps == Split(DirName(RelPath(file_path, directory)))
  IN comps[1]

\* dir_path: the directory of the file's path relative to the root.
SectionKey(file_path) == DirName(RelPath(file_path, directory))

RECURSIVE Group(_, _)
Group(md, acc) ==
  IF md = <<>> THEN acc
  ELSE LET dir_path == SectionKey(Head(md))
       IN Group(Tail(md),
                IF dir_path \in DOMAIN acc
                  THEN [acc EXCEPT ![dir_path] = Append(@, Head(md))]
                  ELSE acc @@ (dir_path :> <<Head(md)>>))

\* sorted(sections.keys())
RECURSIVE SortSet(_)
SortSet(S) ==
  IF S = {} THEN <<>>
  ELSE LET x == CHOOSE y \in S : TRUE IN Insert(x, SortSet(S \ {x}))

\* Mutant of SectionOrder: the keys in the order the grouping inserted them.
RECURSIVE FirstKeys(_, _)
FirstKeys(md, seen) ==
  IF md = <<>> THEN <<>>
  ELSE LET k == DirName(RelPath(Head(md), directory))
       IN (IF k \in seen THEN <<>> ELSE <<k>>)
            \o FirstKeys(Tail(md), seen \cup {k})

SectionOrderInserted(secs) == FirstKeys(md_files, {})

SectionOrder(secs) == SortSet(DOMAIN secs)

\* ----------------------------------------------------------------- writer
RootFiles == <<"R", "o", "o", "t", " ", "F", "i", "l", "e", "s">>

\* The title of a section heading.
SectionTitle(section_path) ==
  IF section_path = <<".">> THEN RootFiles ELSE ReplaceSlash(section_path)

\* What the except branch writes: the placeholder and the separator, in one
\* write call.
ErrorBlock(file_path) == <<Rec("error", file_path), Rec("sep", <<>>)>>

\* What the try branch writes: the adjusted content, then the separator.
ContentBlock(file_path) ==
  <<Rec("content", adjust_headings(Content(file_path), Shift)),
    Rec("sep", <<>>)>>

\* The writes of one file of a section.
FileBlock(file_path) ==
  <<Rec("file", BaseName(file_path)),
    Rec("path", RelPath(file_path, directory))>>
    \o (IF file_path \in unreadable THEN ErrorBlock(file_path)
        ELSE ContentBlock(file_path))

\* Mutant of ReportCounts: the files whose read failed are not counted.
ReportCountsReadOnly ==
  <<Cardinality({n \in 1..Len(md_files) : md_files[n] \notin unreadable}),
    Cardinality(DOMAIN sections)>>

\* The two counts printed at the end.
ReportCounts == <<Len(md_files), Cardinality(DOMAIN sections)>>

\* ---------------------------------------------------------------- actions
NoSections == <<>>

InitRun ==
  /\ pc = "start" /\ run = 1
  /\ exclude = {} /\ stack = <<>> /\ scanned = {}
  /\ md_files = <<>> /\ sections = NoSections
  /\ keysLeft = <<>> /\ filesLeft = <<>>
  /\ doc = <<>> /\ reported = <<>> /\ prevDoc = <<>> /\ inOrder = <<>>

IdleRewriter ==
  rcontent = <<>> /\ rshift = 0 /\ rresult = <<>> /\ rpc = "idle"

Init ==
  /\ files \in {F \in SUBSET FileUniverse : Cardinality(F) <= MaxFiles}
  /\ excludeArg \in {E \in SUBSET ExclUniverse : Cardinality(E) <= MaxExclude}
  /\ output_file \in OutputUniverse
  /\ unreadable \in SUBSET files
  /\ unlistable \in SUBSET UnlistableUniverse
  /\ Cardinality(unreadable) + Cardinality(unlistable) <= MaxFaults
  /\ outState = (IF AbsPath(output_file) \in files THEN "old" ELSE "absent")
  /\ InitRun
  /\ IdleRewriter

\* Lines 37-45: the defaults, the absolute paths, the empty list; os.walk
\* starts at the root.
Begin ==
  /\ pc = "start"
  /\ exclude' = ResolveExclude(excludeArg)
  /\ md_files' = <<>>
  /\ stack' = <<directory>>
  /\ scanned' = {}
  /\ pc' = "walk"
  /\ UNCHANGED <<envVars, rewriterVars, run, sections, keysLeft, filesLeft,
                 doc, reported, prevDoc, inOrder>>

\* Mutant of ScanError: the error is raised and ends the run.
ScanErrorFatal(root) ==
  /\ pc' = "failed"
  /\ UNCHANGED <<stack, md_files>>

\* os.walk on a directory whose scan raises: onerror is None, so the error is
\* dropped, nothing is yielded for the directory and the walk goes on.
ScanError(root) ==
  /\ stack' = Tail(stack)
  /\ UNCHANGED <<md_files, pc>>

\* One iteration of the os.walk loop: the directory is scanned, its names come
\* in any order, the excluded subdirectories are pruned, the candidate files
\* are appended, and the kept subdirectories are walked next, in order.
Walk ==
  /\ pc = "walk" /\ stack # <<>>
  /\ LET root == Head(stack)
     IN /\ scanned' = scanned \cup {root}
        /\ IF root \in unlistable THEN ScanError(root)
           ELSE \E dirs \in Orderings(DirNames(root)),
                   fs \in Orderings(FileNames(root)) :
                  /\ stack' = JoinAll(root, KeptDirs(root, dirs))
                                \o Tail(stack)
                  /\ md_files' = md_files
                                   \o JoinAll(root, Candidates(root, fs))
                  /\ pc' = pc
  /\ UNCHANGED <<envVars, rewriterVars, run, exclude, sections, keysLeft,
                 filesLeft, doc, reported, prevDoc, inOrder>>

\* Lines 57-68, once os.walk is exhausted: the list is sorted and grouped.
SortAndGroup ==
  /\ pc = "walk" /\ stack = <<>>
  /\ md_files' = SortFiles(md_files)
  /\ sections' = Group(md_files', NoSections)
  /\ inOrder' = Append(inOrder, md_files' = md_files)
  /\ pc' = "open"
  /\ UNCHANGED <<envVars, rewriterVars, run, exclude, stack, scanned,
                 keysLeft, filesLeft, doc, reported, prevDoc>>

\* Lines 71-76: the output file is opened for writing (created or truncated),
\* the title and the generation marker are written, the section loop starts.
OpenOutput ==
  /\ pc = "open"
  /\ outState' = "new"
  /\ files' = IF DirName(AbsPath(output_file)) \in DirUniverse
              THEN files \cup {AbsPath(output_file)} ELSE files
  /\ doc' = <<Rec("title", <<>>), Rec("marker", BaseName(output_file))>>
  /\ keysLeft' = SectionOrder(sections)
  /\ filesLeft' = <<>>
  /\ pc' = "write"
  /\ UNCHANGED <<unreadable, unlistable, excludeArg, output_file,
                 rewriterVars, run, exclude, stack, scanned, md_files,
                 sections, reported, prevDoc, inOrder>>

\* Lines 76-84: the next section's heading.
WriteSection ==
  /\ pc = "write" /\ filesLeft = <<>> /\ keysLeft # <<>>
  /\ doc' = Append(doc, Rec("section", SectionTitle(Head(keysLeft))))
  /\ filesLeft' = sections[Head(keysLeft)]
  /\ keysLeft' = Tail(keysLeft)
  /\ UNCHANGED <<envVars, rewriterVars, pc, run, exclude, stack, scanned,
                 md_files, sections, reported, prevDoc, inOrder>>

\* Mutant of WriteFile: a read error is not caught and ends the run.
WriteFileAborts ==
  /\ pc = "write" /\ filesLeft # <<>>
  /\ IF Head(filesLeft) \in unreadable
       THEN /\ doc' = doc \o SubSeq(FileBlock(Head(filesLeft)), 1, 2)
            /\ pc' = "failed"
       ELSE /\ doc' = doc \o FileBlock(Head(filesLeft))
            /\ pc' = pc
  /\ filesLeft' = Tail(filesLeft)
  /\ UNCHANGED <<envVars, rewriterVars, run, exclude, stack, scanned,
                 md_files, sections, keysLeft, reported, prevDoc, inOrder>>

\* Lines 84-101: the next file of the section.
WriteFile ==
  /\ pc = "write" /\ filesLeft # <<>>
  /\ doc' = doc \o FileBlock(Head(filesLeft))
  /\ filesLeft' = Tail(filesLeft)
  /\ UNCHANGED <<envVars, rewriterVars, pc, run, exclude, stack, scanned,
                 md_files, sections, keysLeft, reported, prevDoc, inOrder>>

\* Lines 103-104: the file is closed and the counts are printed.
Report ==
  /\ pc = "write" /\ filesLeft = <<>> /\ keysLeft = <<>>
  /\ reported' = ReportCounts
  /\ pc' = "done"
  /\ UNCHANGED <<envVars, rewriterVars, run, exclude, stack, scanned,
                 md_files, sections, keysLeft, filesLeft, doc, prevDoc,
                 inOrder>>

\* The tool is invoked a second time with the same arguments on the tree the
\* first invocation left.
Rerun ==
  /\ pc = "done" /\ run = 1
  /\ run' = 2
  /\ prevDoc' = doc
  /\ pc' = "start"
  /\ sections' = NoSections
  /\ UNCHANGED <<envVars, rewriterVars, exclude, stack, scanned, md_files,
                 keysLeft, filesLeft, doc, reported, inOrder>>

Next ==
  \/ Begin
  \/ Walk
  \/ SortAndGroup
  \/ OpenOutput
  \/ WriteSection
  \/ WriteFile
  \/ Report
  \/ Rerun

Spec == Init /\ [][Next]_vars

\* ------------------------------------------------ adjust_headings alone
InitRewriter ==
  /\ rcontent \in Contents(MaxLen)
  /\ rshift \in ShiftUniverse
  /\ rresult = <<>>
  /\ rpc = "call"
  /\ files = {} /\ unreadable = {} /\ unlistable = {} /\ excludeArg = {}
  /\ output_file = <<"/", "o", ".", "m", "d">> /\ outState = "absent"
  /\ InitRun

Rewrite ==
  /\ rpc = "call"
  /\ rresult' = adjust_headings(rcontent, rshift)
  /\ rpc' = "returned"
  /\ UNCHANGED <<envVars, runVars, rcontent, rshift>>

NextRewriter == Rewrite

SpecRewriter == InitRewriter /\ [][NextRewriter]_vars

\* ------------------------------------------------- reading the document
Done == pc = "done"

\* The positions of the writes of one kind.
Idx(kind) == {i \in 1..Len(doc) : doc[i].kind = kind}

\* The file blocks: the positions of the file headings.
Blocks == Idx("file")

\* The path, relative to the root, that the block at i states.
BlockRel(i) == doc[i + 1].text

\* The key of the section the block at i belongs to, and its absolute path.
BlockKey(i) == SubSeq(BlockRel(i), 1, LastSlash(BlockRel(i)) - 1)

BlockAbs(i) == directory \o <<"/">> \o BlockRel(i)

\* The position of the section heading the write at i lies under (0: none).
HeadingAbove(i) ==
  LET H == {j \in Idx("section") : j < i}
  IN IF H = {} THEN 0 ELSE CHOOSE j \in H : \A k \in H : k <= j

\* d is a directory above f.
Under(d, f) ==
  /\ Len(f) > Len(d)
  /\ SubSeq(f, 1, Len(d)) = d
  /\ (d = <<"/">> \/ f[Len(d) + 1] = "/")

\* The path of f, a path below the root, relative to the root.
RelOf(f) == SubSeq(f, Len(directory) + 2, Len(f))

\* The directory that holds f.
ParentDir(f) == CHOOSE d \in DirUniverse \cup {<<"/">>} :
                  Under(d, f) /\ \A e \in DirUniverse : Under(e, f) => ~Under(d, e)

\* The blocks written for the file f.
BlocksOf(f) == {i \in Blocks : BlockRel(i) = RelOf(f)}

\* The names that end in .md whatever the case.
MdNames == {<<"x", ".", "m", "d">>, <<"Y", ".", "M", "D">>}

\* The excluded directories strictly below the root.
ExclBelow == {e \in exclude : Under(directory, e)}

\* The walk reaches the directory that holds f: every directory from the root
\* down to it can be listed.
Listed(f) ==
  \A d \in DirUniverse : (Under(d, f) /\ ~Under(d, directory)) => d \notin unlistable

\* f is to be aggregated: a Markdown name, not excluded, no excluded directory
\* between the root and it, not the output file, in a directory that is reached.
Eligible(f) ==
  /\ f \in files
  /\ BaseName(f) \in MdNames
  /\ f \notin exclude
  /\ \A e \in ExclBelow : ~Under(e, f)
  /\ f # AbsPath(output_file)
  /\ Listed(f)

\* The same with the claim's words: no excluded directory above it at all.
EligibleAnyAncestor(f) ==
  /\ f \in files
  /\ BaseName(f) \in MdNames
  /\ f \notin exclude
  /\ \A e \in exclude : ~Under(e, f)
  /\ f # AbsPath(output_file)

\* Every file with a block lies under a heading, and two blocks lie under the
\* same heading exactly when their files share the directory. The sections
\* mapping groups the same way.
GroupedByParent ==
  /\ \A i \in Blocks : HeadingAbove(i) # 0
  /\ \A f, g \in files :
       \A i \in BlocksOf(f), j \in BlocksOf(g) :
         (HeadingAbove(i) = HeadingAbove(j)) <=> (ParentDir(f) = ParentDir(g))
  /\ \A k \in DOMAIN sections :
       \A n \in 1..Len(sections[k]) :
         RelOf(ParentDir(sections[k][n])) = k

\* ---------------------------------------------------------------- claims

\* C1 (as amended): once the run is done, each file under the root whose name
\* ends in .md in any case, that is not excluded, has no excluded directory
\* strictly below the root above it, is not the output file and lies in a
\* directory the walk could list, has exactly one file block, under the
\* section of its immediate parent directory; no other file has a block.
C1_EligibleFilesOnceUnderParent ==
  Done =>
    /\ \A f \in files \cup FileUniverse :
         Cardinality(BlocksOf(f)) = (IF Eligible(f) THEN 1 ELSE 0)
    /\ Cardinality(Blocks)
         = Cardinality({f \in files \cup FileUniverse : Eligible(f)})
    /\ GroupedByParent

\* C1 witness: a finished run with blocks for a root file and for a file two
\* levels down, and a file of the tree that got no block.
C1_Witness ==
  /\ Done
  /\ BlocksOf(<<"/", "r", "/", "Y", ".", "M", "D">>) # {}
  /\ BlocksOf(<<"/", "r", "/", "a", "/", "b", "/", "x", ".", "m", "d">>) # {}
  /\ \E f \in files : BlocksOf(f) = {}

\* C1 as stated: with every directory listable, the files with a block are
\* exactly those with a Markdown name, not excluded, with no excluded ancestor
\* directory, other than the output file.
C1_Original ==
  (Done /\ unlistable = {}) =>
    \A f \in files \cup FileUniverse :
      Cardinality(BlocksOf(f)) = (IF EligibleAnyAncestor(f) THEN 1 ELSE 0)

\* C2 (as amended): a directory strictly below the root whose absolute path
\* is in the exclusion set is never scanned, nor is any directory below it,
\* and no file that is in the exclusion set or lies at any depth below such a
\* directory has a block in the document.
C2_ExcludedBelowRootPruned ==
  /\ \A d \in scanned :
       d \notin ExclBelow /\ \A e \in ExclBelow : ~Under(e, d)
  /\ \A i \in Blocks :
       /\ BlockAbs(i) \notin exclude
       /\ \A e \in ExclBelow : ~Under(e, BlockAbs(i))

\* C2 witness: a finished run with a/ excluded, a file two levels below it in
\* the tree, and some other file aggregated.
C2_Witness ==
  /\ Done
  /\ <<"/", "r", "/", "a">> \in exclude
  /\ <<"/", "r", "/", "a", "/", "b", "/", "x", ".", "m", "d">> \in files
  /\ Blocks # {}

\* C2 as stated: no directory in the exclusion set is ever scanned, and no
\* file in the exclusion set or below an excluded directory has a block.
C2_Original ==
  /\ scanned \cap exclude = {}
  /\ \A i \in Blocks :
       /\ BlockAbs(i) \notin exclude
       /\ \A e \in exclude : ~Under(e, BlockAbs(i))

\* C3 as stated: the files directly in the root are grouped under the key "."
\* and their section is headed "Root Files"; every other section is headed by
\* its relative directory with " > " for each separator.
C3_RootFilesHeading ==
  Done =>
    \A i \in Blocks :
      LET rel == BlockRel(i)
          h == HeadingAbove(i)
      IN /\ h # 0
         /\ IF LastSlash(rel) = 0
              THEN /\ doc[h].text = RootFiles
                   /\ <<".">> \in DOMAIN sections
              ELSE doc[h].text
                     = ReplaceSlash(SubSeq(rel, 1, LastSlash(rel) - 1))

\* The lines of a text.
RECURSIVE LinesFrom(_, _)
LinesFrom(s, cur) ==
  IF s = <<>> THEN <<cur>>
  ELSE IF Head(s) = "\n" THEN <<cur>> \o LinesFrom(Tail(s), <<>>)
  ELSE LinesFrom(Tail(s), Append(cur, Head(s)))

\* A heading line beyond doubt: one or more "#", whitespace, and text after it.
IsHeadingLine(line) ==
  LET k == HashRun(line, 1)
  IN /\ k > 0 /\ Len(line) > k /\ line[k + 1] = " "
     /\ \E m \in (k + 1)..Len(line) : line[m] # " "

\* C4 as stated, on the lines it leaves no doubt about: for a shift > 0 the
\* result of adjust_headings has as many lines as the content, every line that
\* starts with "#"s followed by whitespace and text is longer by exactly the
\* shift in "#" and otherwise the same, and every line that does not start
\* with "#" is as it was.
C4_EveryHeadingLineShifted ==
  (rpc = "returned" /\ rshift > 0) =>
    LET before == LinesFrom(rcontent, <<>>)
        after == LinesFrom(rresult, <<>>)
    IN /\ Len(after) = Len(before)
       /\ \A l \in 1..Len(before) :
            /\ IsHeadingLine(before[l]) =>
                 after[l] = Hashes(rshift) \o before[l]
            /\ HashRun(before[l], 1) = 0 => after[l] = before[l]

\* The four writes of the block at i, by kind.
BlockKinds(i) == [k \in 1..4 |-> IF i + k - 1 <= Len(doc)
                                 THEN doc[i + k - 1].kind ELSE "none"]

\* The files of the sections still to be written.
RECURSIVE PendingIn(_)
PendingIn(keys) ==
  IF keys = <<>> THEN 0 ELSE Len(sections[Head(keys)]) + PendingIn(Tail(keys))

Pending == Len(filesLeft) + PendingIn(keysLeft)

\* C5: a read failure does not abort the run. From the first write on, every
\* block in the document is whole (a file whose read failed has its heading,
\* its path line, the placeholder naming the error and one separator), the
\* files written and the files still to write are all the files found, and
\* while a file is still to write the run is in its write loop; once the run
\* is done every file found has exactly one block.
C5_ReadErrorKeepsGoing ==
  (pc \notin {"start", "walk", "open"}) =>
    /\ Cardinality(Blocks) + Pending = Len(md_files)
    /\ Pending > 0 => pc = "write"
    /\ Cardinality(Idx("sep")) = Cardinality(Blocks)
    /\ \A i \in Blocks :
         LET f == BlockAbs(i)
         IN /\ Cardinality(BlocksOf(f)) = 1
            /\ \E n \in 1..Len(md_files) : md_files[n] = f
            /\ BlockKinds(i) =
                 IF f \in unreadable
                 THEN <<"file", "path", "error", "sep">>
                 ELSE <<"file", "path", "content", "sep">>
            /\ f \in unreadable => doc[i + 2].text = f

\* C5 witness: a finished run whose document holds a placeholder block and,
\* after it, the block of a file that was read.
C5_Witness ==
  /\ Done
  /\ \E i, j \in Blocks :
       i < j /\ doc[i + 2].kind = "error" /\ doc[j + 2].kind = "content"

\* C6: the second invocation, whatever order its walk returned the names in,
\* writes the very document of the first.
C6_SameDocumentWhateverWalkOrder ==
  (Done /\ run = 2) => doc = prevDoc

\* C6 witness: both invocations done, one walk having yielded the files in
\* sorted order and the other not, with two sections at least.
C6_Witness ==
  /\ Done /\ run = 2
  /\ inOrder[1] # inOrder[2]
  /\ Cardinality(Idx("section")) >= 2

\* C7: the output path is never among the files found, and once the run is
\* done the output file holds the new document alone, with no block for the
\* output path in it.
C7_OutputNeverAggregated ==
  LET out == AbsPath(output_file)
  IN /\ \A n \in 1..Len(md_files) : md_files[n] # out
     /\ Done =>
          /\ outState = "new"
          /\ Idx("title") = {1}
          /\ \A i \in Blocks : BlockAbs(i) # out

\* C7 witness: the second invocation done, the output file of the first lying
\* in a scanned directory under the root, not excluded, beside an aggregated
\* file.
C7_Witness ==
  /\ Done /\ run = 2
  /\ AbsPath(output_file) \in files
  /\ DirName(AbsPath(output_file)) \in scanned \ unlistable
  /\ AbsPath(output_file) \notin exclude
  /\ Blocks # {}

\* C8 (as amended): a traversal error is not fatal. The directory that cannot
\* be listed is skipped, the walk goes on while directories remain, and the
\* finished document holds exactly the eligible files of the directories that
\* could be listed.
C8_TraversalErrorSkipped ==
  (scanned \cap unlistable # {}) =>
    /\ stack # <<>> => pc = "walk"
    /\ Done => \A f \in files : (BlocksOf(f) # {}) <=> Eligible(f)

\* C8 witness: a finished run that met a directory it could not list, holding
\* a Markdown file, and that still wrote a block for another file.
C8_Witness ==
  /\ Done
  /\ \E d \in scanned \cap unlistable :
       \E f \in files : Under(d, f) /\ BaseName(f) \in MdNames
  /\ Blocks # {}

\* C8 as stated: a run that could not list a directory holding Markdown files
\* does not end with a document.
C8_Original ==
  Done =>
    ~\E d \in scanned \cap unlistable :
       \E f \in files : Under(d, f) /\ BaseName(f) \in MdNames

C10_CountsMatchDocument ==
  Done =>
    /\ reported = <<Cardinality(Blocks), Cardinality(Idx("section"))>>
    /\ md_files = <<>> =>
         /\ reported = <<0, 0>>
         /\ doc = <<Rec("title", <<>>), Rec("marker", BaseName(output_file))>>

\* C10 witness: a finished run reporting two files or more, one of them with a
\* placeholder for its content.
C10_Witness ==
  /\ Done
  /\ reported[1] >= 2
  /\ Idx("error") # {}

====
